---- MODULE Spec2Model ----
(***************************************************************************)
(* Model of jenkins_jobs/registry.py: ModuleRegistry, its process-wide     *)
(* caches and the recursive dispatch() of components, macros and           *)
(* generators.  dispatch() is cut into the consecutive blocks of its body; *)
(* the Python call stack is the sequence `stack`.                          *)
(***************************************************************************)
EXTENDS Integers, Sequences, FiniteSets, TLC

\* Depth of the Python call stack at which a further call raises
\* RecursionError (stands for sys.getrecursionlimit()).
MaxDepth == 4

\* ---------------------------------------------------------------------
\* Values
\* ---------------------------------------------------------------------
Registries == {"r1", "r2"}
Nodes == {"n1", "n2"}
KnownTypes == {"builder", "publisher", "trigger"}
ComponentTypes == KnownTypes \cup {"frobnicator"}

EmptyMap == [k \in {} |-> ""]

\* A component's arguments: a mapping, possibly a lazy (Jinja2Loader) one.
Data(lazy, m) == [lazy |-> lazy, m |-> m]
NoData == Data(FALSE, EmptyMap)

\* A component reference: a bare string or a singleton dict name: args.
Bare(n) == [isdict |-> FALSE, name |-> n, data |-> NoData]
Map(n, d) == [isdict |-> TRUE, name |-> n, data |-> d]

\* job_data is None or a dict
NoJob == [none |-> TRUE, m |-> EmptyMap]
Job(m) == [none |-> FALSE, m |-> m]

NoExc == [kind |-> "none", text |-> "", args |-> << >>]
Ok == [kind |-> "ok", text |-> "", args |-> << >>]
Error(kind, text, args) == [kind |-> kind, text |-> text, args |-> args]

\* ---------------------------------------------------------------------
\* The installation: modules, their functions, registered entry points
\* ---------------------------------------------------------------------
\* entry points of group "jenkins_jobs.modules" that declare a component_type
ModuleEntryPoints ==
    [ct \in KnownTypes |->
        CASE ct = "builder" -> "jenkins_jobs.modules.builders"
          [] ct = "publisher" -> "jenkins_jobs.modules.publishers"
          [] OTHER -> "jenkins_jobs.modules.triggers"]

\* entry_point.load().component_list_type
LoadListType(ep) ==
    CASE ep = "jenkins_jobs.modules.builders" -> "builders"
      [] ep = "jenkins_jobs.modules.publishers" -> "publishers"
      [] OTHER -> "triggers"

ListTypes == {"builders", "publishers", "triggers"}

Fn(fname, hasdoc, line) == [fname |-> fname, hasdoc |-> hasdoc, line |-> line]

\* The functions of a module, in dir() order, each with the first line of
\* its docstring split at blanks (hasdoc = FALSE: __doc__ is None).
ModuleFunctions(ep) ==
    CASE ep = "jenkins_jobs.modules.builders" ->
            << Fn("build", TRUE, <<"yaml:", "build">>),
               Fn("fail", TRUE, <<"yaml:", "fail">>),
               Fn("helper", FALSE, << >>),
               Fn("shell", TRUE, <<"yaml:", "shell">>),
               Fn("tagonly", TRUE, <<"yaml:">>),
               Fn("util", TRUE, <<"Convert", "a", "value">>) >>
      [] ep = "jenkins_jobs.modules.publishers" ->
            << Fn("archive", TRUE, <<"yaml:", "archive">>),
               Fn("build", TRUE, <<"yaml:", "build">>) >>
      [] OTHER ->
            << Fn("timed", TRUE, <<"yaml:", "timed">>) >>

EP(name, module, attr) == [name |-> name, gen |-> [module |-> module, attr |-> attr]]

\* pkg_resources.iter_entry_points(group="jenkins_jobs.<list type>")
RegisteredEntryPoints(clt) ==
    CASE clt = "builders" -> << EP("copy", "ext_plugin", "copy") >>
      [] clt = "publishers" -> << >>
      [] OTHER -> << EP("timed", "ext_plugin", "timed") >>

\* getargspec(func).args
ArgSpec(gen) ==
    IF gen.attr \in {"build", "copy"} /\ gen.module # "jenkins_jobs.modules.publishers"
    THEN {"registry", "xml_parent", "data", "job_data"}
    ELSE {"registry", "xml_parent", "data"}

\* func(self, xml_parent, component_data, **kwargs) raises: generators are
\* code of the modules, and one of the installation's fails on every call
GeneratorRaises(gen) == gen.attr = "fail"
GeneratorError(name) == Error("GeneratorError", "generator failed", << name >>)

\* ---------------------------------------------------------------------
\* Macros (parser data)
\* ---------------------------------------------------------------------
\* A macro definition: the dict stored under parser_data[type][name];
\* lists maps the list-type keys it has to their body.
Macro(nonempty, lists) == [nonempty |-> nonempty, lists |-> lists]

X1 == Data(FALSE, "x" :> "1")
Y1 == Data(FALSE, "y" :> "1")
CmdX == Data(FALSE, "cmd" :> "{x}")

BuilderMacros ==
    ( "build" :> Macro(TRUE, "builders" :> << Bare("shell") >>) )
 @@ ( "two" :> Macro(TRUE, "builders" :> << Map("shell", CmdX), Map("copy", CmdX) >>) )
 @@ ( "seq" :> Macro(TRUE, "builders" :> << Bare("shell"), Bare("nope"), Bare("copy") >>) )
 @@ ( "none" :> Macro(TRUE, "builders" :> << >>) )
 @@ ( "loop" :> Macro(TRUE, "builders" :> << Bare("shell"), Bare("loop") >>) )
 @@ ( "nokey" :> Macro(TRUE, "publishers" :> << Bare("shell") >>) )
 @@ ( "boom" :> Macro(TRUE, "builders" :> << Bare("shell"), Bare("fail"), Bare("copy") >>) )
 @@ ( "ping" :> Macro(TRUE, "builders" :> << Bare("shell"), Bare("pong") >>) )
 @@ ( "pong" :> Macro(TRUE, "builders" :> << Bare("ping") >>) )
 @@ ( "copy" :> Macro(FALSE, EmptyMap) )
 @@ ( "void" :> Macro(FALSE, EmptyMap) )
 @@ ( "outer" :> Macro(TRUE, "builders" :>
                    << Map("inner", Data(FALSE, "y" :> "{x}")) >>) )
 @@ ( "inner" :> Macro(TRUE, "builders" :>
                    << Map("shell", Data(FALSE, "cmd" :> "{y}")), Map("copy", CmdX) >>) )

PublisherMacros ==
    ( "build" :> Macro(TRUE, "publishers" :> << Bare("archive") >>) )

TriggerMacros ==
    ( "nightly" :> Macro(TRUE, "triggers" :> << Bare("timed") >>) )

ParserData ==
    ( "builder" :> BuilderMacros ) @@ ( "publisher" :> PublisherMacros )
 @@ ( "trigger" :> TriggerMacros )

Unset == [set |-> FALSE, data |-> EmptyMap]
Parsed(pd) == [set |-> TRUE, data |-> pd]

\* The inputs of top-level dispatch calls: the components a job lists under
\* each component type, the node they are generated into
TopRefs(component_type) ==
    CASE component_type = "builder" ->
            { Bare("build"), Bare("shell"), Bare("nope"), Bare("seq"), Bare("none"),
              Bare("loop"), Bare("nokey"), Map("two", X1), Map("two", Y1),
              Map("copy", CmdX), Map("shell", Data(TRUE, "cmd" :> "{x}")),
              Bare("boom"), Bare("ping"), Bare("void"), Bare("two"),
              Map("outer", X1) }
      [] component_type = "publisher" ->
            { Bare("build"), Bare("archive"), Bare("shell") }
      [] component_type = "trigger" ->
            { Bare("timed"), Bare("nightly"), Map("timed", CmdX) }
      [] OTHER ->
            { Bare("shell"), Map("shell", CmdX) }
TopNodes == Nodes
TopTemplateData == { NoData, Data(FALSE, "x" :> "T") }
TopJobData == { NoJob, Job("x" :> "J") }

\* ---------------------------------------------------------------------
\* Pure functions of the registry
\* ---------------------------------------------------------------------
\* One function of the module as an entry point, or none: the docstring
\* tag "yaml: <name>" (AttributeError and IndexError skip the function).
TaggedName(f) ==
    IF ~f.hasdoc THEN << >>
    ELSE IF Len(f.line) = 0 \/ f.line[1] # "yaml:" THEN << >>
    ELSE IF Len(f.line) < 2 THEN << >>
    ELSE << f.line[2] >>

RECURSIVE AutoEntryPoints(_, _)
AutoEntryPoints(ep, funcs) ==
    IF funcs = << >> THEN << >>
    ELSE LET f == Head(funcs)
             t == TaggedName(f)
         IN (IF t = << >> THEN << >> ELSE << EP(t[1], ep, f.fname) >>)
            \o AutoEntryPoints(ep, Tail(funcs))

\* module_eps: the auto-discovered entry points, then the registered ones
ModuleEps(ep, clt) ==
    AutoEntryPoints(ep, ModuleFunctions(ep)) \o RegisteredEntryPoints(clt)

\* (variant: a name that is already there is overwritten)
RECURSIVE FillEpsOverwrites(_, _)
FillEpsOverwrites(module_eps, eps) ==
    IF module_eps = << >> THEN [dup |-> FALSE, eps |-> eps]
    ELSE LET e == Head(module_eps)
         IN FillEpsOverwrites(Tail(module_eps), (e.name :> e.gen) @@ eps)

\* The loop that fills eps: stops at the first name that is already there.
RECURSIVE FillEps(_, _)
FillEps(module_eps, eps) ==
    IF module_eps = << >> THEN [dup |-> FALSE, eps |-> eps]
    ELSE LET e == Head(module_eps)
         IN IF e.name \in DOMAIN eps
            THEN [dup |-> TRUE, eps |-> eps]
            ELSE FillEps(Tail(module_eps), (e.name :> e.gen) @@ eps)

BuildEps(ep, clt) == FillEps(ModuleEps(ep, clt), EmptyMap)

\* (variant: nothing is dropped)
FilterKwargsKeepsAll(func, kwargs) == kwargs

\* _filter_kwargs: drop the keyword arguments func does not declare
FilterKwargs(func, kwargs) ==
    [k \in {n \in DOMAIN kwargs : n \in ArgSpec(func)} |-> kwargs[k]]

\* Calling func(self, xml_parent, data, **kwargs) is a TypeError when
\* kwargs holds a name func does not declare.
CallAccepted(func, kwargs) == DOMAIN kwargs \subseteq ArgSpec(func)

\* (variant: template_data laid over job_data)
ParamDictTemplateFirst(template_data, job_data) ==
    template_data.m @@ (IF job_data.none THEN EmptyMap ELSE job_data.m)

\* paramdict: template_data, then job_data (or {}) laid over it
ParamDict(template_data, job_data) ==
    (IF job_data.none THEN EmptyMap ELSE job_data.m) @@ template_data.m

\* Template strings and the variable each one names
Templates == {"{x}", "{y}"}
VarOf(v) == IF v = "{x}" THEN "x" ELSE "y"

FormatValue(v, paramdict) ==
    IF v \in Templates
    THEN IF VarOf(v) \in DOMAIN paramdict THEN paramdict[VarOf(v)] ELSE ""
    ELSE v

MissingVars(data, paramdict) ==
    { VarOf(data.m[k]) : k \in {j \in DOMAIN data.m :
          data.m[j] \in Templates /\ VarOf(data.m[j]) \notin DOMAIN paramdict} }

\* deep_format(obj, paramdict, allow_empty): every string leaf substituted;
\* fails on a variable paramdict lacks unless allow_empty.
DeepFormat(data, paramdict, allow_empty) ==
    [ok |-> allow_empty \/ MissingVars(data, paramdict) = {},
     data |-> Data(FALSE, [k \in DOMAIN data.m |-> FormatValue(data.m[k], paramdict)])]

\* (variant: the message does not name the type)
UnknownTypeErrorUnnamed(component_type) ==
    Error("JenkinsJobsException", "Unknown component type", << >>)

UnknownTypeError(component_type) ==
    Error("JenkinsJobsException", "Unknown component type", << component_type >>)
DuplicateError(component_type, name) ==
    Error("JenkinsJobsException", "Duplicate entry point found for component type",
          << component_type, component_type, name >>)
UnknownNameError(name, component_type) ==
    Error("JenkinsJobsException", "Unknown entry point or macro",
          << name, component_type >>)
FormatError(data, paramdict) ==
    Error("FormatError", "missing parameter",
          << CHOOSE v \in MissingVars(data, paramdict) : TRUE >>)

\* ---------------------------------------------------------------------
\* Plugin metadata
\* ---------------------------------------------------------------------
MaxPlugins == 2

\* Python's None as the value of a descriptor key (an absent key reads the same)
None == "<None>"

\* A version string as its pieces: "1.2-BETA3" is << "1.2", "-BETA", "3" >>;
\* the empty sequence is a descriptor without a "version" key.
NoVersion == << >>
Versions == { NoVersion, << "1.2" >>, << "1.2", "-BETA", "3" >> }
LongNames == { None, "X", "Y" }
ShortNames == { None, "x", "X" }
PluginNames == { "X", "Y", "x", "zzz" }

\* The plugin descriptors: id is the object's identity (its place in the list)
Descriptors ==
    [longName : LongNames, shortName : ShortNames, version : Versions]
PluginsListsOf(n) ==
    { [i \in 1..n |-> [id |-> i, longName |-> l[i].longName,
                       shortName |-> l[i].shortName, version |-> l[i].version]] :
      l \in [1..n -> Descriptors] }
NoPluginsList == [none |-> TRUE, list |-> << >>]
PluginsLists ==
    { NoPluginsList } \cup
    { [none |-> FALSE, list |-> l] :
      l \in UNION { PluginsListsOf(n) : n \in 0..MaxPlugins } }

\* re.sub(r"(.*)-(?:SNAPSHOT|BETA).*", r"\g<1>.preview", version): the text
\* before the last "-SNAPSHOT" or "-BETA", then ".preview"
PreviewMarks == { "-SNAPSHOT", "-BETA" }
PreviewVersion(version) ==
    LET marks == { i \in 1..Len(version) : version[i] \in PreviewMarks }
    IN  IF marks = {} THEN version
        ELSE LET last == CHOOSE i \in marks : \A j \in marks : j <= i
             IN  Append(SubSeq(version, 1, last - 1), ".preview")

\* mutate_plugin_info: the descriptor with its version rewritten, under each
\* of its names that is not None
mutate_plugin_info(plugin_info) ==
    LET version == IF plugin_info.version = NoVersion THEN << "0" >>
                   ELSE plugin_info.version
        mutated == [plugin_info EXCEPT !.version = PreviewVersion(version)]
        aliases == { plugin_info.longName, plugin_info.shortName } \ { None }
    IN  [name \in aliases |-> mutated]

\* dict.update
UpdateKeepsFirst(plugins_info_dict, d) == plugins_info_dict @@ d
Update(plugins_info_dict, d) == d @@ plugins_info_dict

RECURSIVE UpdateAll(_, _)
UpdateAll(plugins_info_dict, list_of_dicts) ==
    IF list_of_dicts = << >> THEN plugins_info_dict
    ELSE UpdateAll(Update(plugins_info_dict, Head(list_of_dicts)),
                   Tail(list_of_dicts))

get_plugins_info_dict(plugins_list) ==
    UpdateAll(EmptyMap, [i \in 1..Len(plugins_list) |->
                            mutate_plugin_info(plugins_list[i])])

\* __init__: plugins_dict is empty without a plugins list
PluginsDict(plugins_list) ==
    IF plugins_list.none THEN EmptyMap
    ELSE get_plugins_info_dict(plugins_list.list)

\* self.plugins_dict.get(plugin_name, {})
PluginInfo(plugins, name) ==
    IF name \in DOMAIN plugins THEN plugins[name] ELSE EmptyMap

\* ---------------------------------------------------------------------
\* Module discovery
\* ---------------------------------------------------------------------
\* The entry points of group "jenkins_jobs.modules" an installation may have
GroupEntryPoints ==
    { "jenkins_jobs.modules.general", "jenkins_jobs.modules.triggers",
      "jenkins_jobs.modules.builders", "jenkins_jobs.modules.publishers",
      "ext_plugin.builders" }

\* mod = entrypoint.load()(self): the module object with its two attributes
LoadModule(entrypoint) ==
    [entry_point |-> entrypoint,
     sequence |->
        CASE entrypoint = "jenkins_jobs.modules.general" -> 10
          [] entrypoint = "jenkins_jobs.modules.triggers" -> 50
          [] entrypoint = "jenkins_jobs.modules.publishers" -> 70
          [] OTHER -> 60,
     component_type |->
        CASE entrypoint = "jenkins_jobs.modules.general" -> None
          [] entrypoint = "jenkins_jobs.modules.triggers" -> "trigger"
          [] entrypoint = "jenkins_jobs.modules.publishers" -> "publisher"
          [] OTHER -> "builder"]

\* The orders in which iter_entry_points may yield an installation's modules
DiscoveryOrders ==
    { order \in UNION { [1..n -> GroupEntryPoints] :
                        n \in 0..Cardinality(GroupEntryPoints) } :
        \A i, j \in 1..Len(order) : order[i] = order[j] => i = j }

\* list.sort(key=attrgetter("sequence")): a stable sort
InsertBeforeEquals(sorted, m) ==
    LET k == Cardinality({ i \in 1..Len(sorted) : sorted[i].sequence < m.sequence })
    IN  SubSeq(sorted, 1, k) \o << m >> \o SubSeq(sorted, k + 1, Len(sorted))
InsertAfterEquals(sorted, m) ==
    LET k == Cardinality({ i \in 1..Len(sorted) : sorted[i].sequence <= m.sequence })
    IN  SubSeq(sorted, 1, k) \o << m >> \o SubSeq(sorted, k + 1, Len(sorted))

RECURSIVE SortBySequence(_)
SortBySequence(list) ==
    IF list = << >> THEN << >>
    ELSE InsertAfterEquals(SortBySequence(SubSeq(list, 1, Len(list) - 1)),
                           list[Len(list)])

\* The registry whose construction is followed step by step
Constructing == "r1"

\* The order in which the modules of the dispatching registries were found
InstalledOrder ==
    << "jenkins_jobs.modules.builders", "jenkins_jobs.modules.publishers",
       "jenkins_jobs.modules.triggers" >>

\* ---------------------------------------------------------------------
\* Handlers
\* ---------------------------------------------------------------------
MaxRegistrations == 3

Categories == { "jobs", "views" }
HandlerNames == { "a", "b" }
Methods == { "m1", "m2" }

\* self.handlers.get(category, {})
GetCategory(handlers_dict, category) ==
    IF category \in DOMAIN handlers_dict THEN handlers_dict[category] ELSE EmptyMap

\* cat_dict[name] = method
SetItemKeepsOld(cat_dict, name, method) == cat_dict @@ (name :> method)
SetItem(cat_dict, name, method) == (name :> method) @@ cat_dict

\* self.handlers[category][name], or the KeyError of either subscript
GetItem(handlers_dict, category, name) ==
    IF category \in DOMAIN handlers_dict /\ name \in DOMAIN handlers_dict[category]
    THEN [raised |-> "", method |-> handlers_dict[category][name]]
    ELSE [raised |-> "KeyError", method |-> ""]

\* ---------------------------------------------------------------------
\* State
\* ---------------------------------------------------------------------
VARIABLES
    modules,                   \* self.modules of the registry Constructing
    pending,                   \* the entry points __init__ has yet to iterate over
    loaded,                    \* history: the entry points loaded, in order
    handlers,                  \* self.handlers
    registered,                \* history: the registerHandler calls so far
    handler,                   \* the last getHandler call and how it ended
    plugins_list,              \* the plugins_list the registry was built from
    plugins_dict,              \* self.plugins_dict
    plugin_name,               \* the argument of the last get_plugin_info
    plugin_info,               \* what the last get_plugin_info returned
    entry_points_cache,        \* ModuleRegistry._entry_points_cache (class attribute)
    component_type_cache,      \* ModuleRegistry._component_type_cache (class attribute)
    modules_by_component_type, \* per registry
    masked_warned,             \* per registry: the names already warned about
    parser_data,               \* per registry: the macro definitions, once set
    allow_empty_variables,     \* per registry: jjb_config.yamlparser[...]
    registry,                  \* the registry whose dispatch is running (self)
    stack,                     \* the frames of the nested dispatch calls
    exc,                       \* the exception being propagated, if any
    result,                    \* how the last top-level dispatch ended
    output,                    \* the children the generators appended to each node
    invoked,                   \* history: the generator calls of this dispatch
    warnings,                  \* history: the warnings logged in this dispatch
    warn_count,                \* history: warnings logged per registry and name
    build_count,               \* history: tables completed per list type
    dup_seen,                  \* history: list types whose build raised a duplicate
    snap                       \* history: the caches when this dispatch was called

vars == << entry_points_cache, component_type_cache, modules_by_component_type,
           masked_warned, parser_data, allow_empty_variables, registry, stack,
           exc, result, output, invoked, warnings, warn_count, build_count,
           dup_seen, snap, plugins_list, plugins_dict, plugin_name, plugin_info,
           handlers, registered, handler, modules, pending, loaded >>

shared == << entry_points_cache, component_type_cache >>
plugins == << plugins_list, plugins_dict, plugin_name, plugin_info >>
handling == << handlers, registered, handler >>
discovery == << modules, pending, loaded >>
config == << modules_by_component_type, allow_empty_variables, plugins, handling,
             discovery >>
history == << warn_count, build_count, dup_seen, snap >>
dispatching == << shared, allow_empty_variables, masked_warned, parser_data, registry, stack, exc, result,
                  output, invoked, warnings, history >>

Names == {"build", "shell", "copy", "archive", "timed", "nope", "two", "seq",
          "none", "loop", "nokey", "nightly", "boom", "fail", "ping", "pong",
          "void", "outer", "inner"}

NoCall == [component_type |-> "", xml_parent |-> "", component |-> Bare(""),
           template_data |-> NoData, job_data |-> NoJob]

\* What a top-level dispatch was called with, and the state it found
Snapshot(call) ==
    [call |-> call,
     entry_points_cache |-> entry_points_cache,
     component_type_cache |-> component_type_cache,
     masked_warned |-> masked_warned,
     dup_seen |-> dup_seen]

NoSnapshot ==
    [call |-> NoCall,
     entry_points_cache |-> EmptyMap, component_type_cache |-> EmptyMap,
     masked_warned |-> [r \in Registries |-> {}],
     dup_seen |-> [l \in ListTypes |-> FALSE]]

\* A registry built without a plugins list
InitPlugins ==
    /\ plugins_list = NoPluginsList
    /\ plugins_dict = PluginsDict(NoPluginsList)
    /\ plugin_name = None
    /\ plugin_info = EmptyMap

InitDispatch ==
    /\ entry_points_cache = EmptyMap
    /\ component_type_cache = EmptyMap
    /\ masked_warned = [r \in Registries |-> {}]
    /\ parser_data = [r \in Registries |-> Unset]
    /\ allow_empty_variables = [r \in Registries |-> r = "r2"]
    /\ registry = "none"
    /\ stack = << >>
    /\ exc = NoExc
    /\ result = NoExc
    /\ output = [n \in Nodes |-> << >>]
    /\ invoked = << >>
    /\ warnings = << >>
    /\ warn_count = [r \in Registries |-> [n \in Names |-> 0]]
    /\ build_count = [l \in ListTypes |-> 0]
    /\ dup_seen = [l \in ListTypes |-> FALSE]
    /\ snap = NoSnapshot

NoHandler == [category |-> "", name |-> "", after |-> 0, raised |-> "", method |-> ""]

\* __init__: no handler is registered
InitHandlers ==
    /\ handlers = EmptyMap
    /\ registered = << >>
    /\ handler = NoHandler

\* __init__ has loaded the modules of every registry
InitModules ==
    /\ modules = SortBySequence([i \in 1..Len(InstalledOrder) |->
                                    LoadModule(InstalledOrder[i])])
    /\ pending = << >>
    /\ loaded = InstalledOrder
    /\ modules_by_component_type = [r \in Registries |-> ModuleEntryPoints]

Init == InitPlugins /\ InitHandlers /\ InitModules /\ InitDispatch

\* The frame of one dispatch() call: its arguments, its position and locals
\* (children: history, the sub-components this call has dispatched so far)
Frame(component_type, xml_parent, component, template_data, job_data) ==
    [component_type |-> component_type, xml_parent |-> xml_parent,
     component |-> component, template_data |-> template_data,
     job_data |-> job_data, pc |-> "check_type",
     entry_point |-> "", component_list_type |-> "", name |-> "",
     component_data |-> NoData, eps |-> EmptyMap, body |-> << >>, idx |-> 0,
     children |-> << >>]

Idle == stack = << >> /\ result.kind = "none"
Running == stack # << >> /\ exc.kind = "none"
Top == stack[Len(stack)]
At(pc) == Running /\ Top.pc = pc
SetTop(f) == [stack EXCEPT ![Len(stack)] = f]
Pop == SubSeq(stack, 1, Len(stack) - 1)

\* set_parser_data, called between dispatches
set_parser_data(r, data) ==
    /\ Idle
    /\ parser_data' = [parser_data EXCEPT ![r] = Parsed(data)]
    /\ UNCHANGED << shared, config, masked_warned, registry, stack, exc, result,
                    output, invoked, warnings, history >>

\* A caller invokes dispatch on a registry whose parser data is set.
Call(r, component_type, xml_parent, component, template_data, job_data) ==
    /\ Idle
    /\ parser_data[r].set
    /\ registry' = r
    /\ stack' = << Frame(component_type, xml_parent, component, template_data, job_data) >>
    /\ snap' = Snapshot([component_type |-> component_type, xml_parent |-> xml_parent,
                          component |-> component, template_data |-> template_data,
                          job_data |-> job_data])
    /\ UNCHANGED << shared, config, masked_warned, parser_data, exc, result, output,
                    invoked, warnings, warn_count, build_count, dup_seen >>

\* The caller takes the outcome and starts on a new output document.
Finish ==
    /\ stack = << >>
    /\ result.kind # "none"
    /\ result' = NoExc
    /\ registry' = "none"
    /\ output' = [n \in Nodes |-> << >>]
    /\ invoked' = << >>
    /\ warnings' = << >>
    /\ snap' = NoSnapshot
    /\ UNCHANGED << shared, config, masked_warned, parser_data, stack, exc,
                    warn_count, build_count, dup_seen >>

Raise(e) == exc' = e /\ UNCHANGED << stack, result >>
Goto(f) == stack' = SetTop(f) /\ UNCHANGED << exc, result >>
Return ==
    /\ stack' = Pop
    /\ result' = IF Len(stack) = 1 THEN Ok ELSE result
    /\ UNCHANGED exc

\* ---------------------------------------------------------------------
\* dispatch(), block by block
\* ---------------------------------------------------------------------
KnownComponentType(r, component_type) ==
    component_type \in DOMAIN modules_by_component_type[r]

\* if component_type not in self.modules_by_component_type: raise
CheckComponentType ==
    /\ At("check_type")
    /\ IF KnownComponentType(registry, Top.component_type)
       THEN Goto([Top EXCEPT !.pc = "list_type"])
       ELSE Raise(UnknownTypeError(Top.component_type))
    /\ UNCHANGED << shared, config, masked_warned, parser_data, registry, output,
                    invoked, warnings, history >>

\* (variant: the loaded list type is not stored)
get_component_list_type_uncached(cache, entry_point) ==
    IF entry_point \in DOMAIN cache
    THEN [value |-> cache[entry_point], cache |-> cache]
    ELSE [value |-> LoadListType(entry_point), cache |-> cache]

\* get_component_list_type: the cached list type, or load and cache it
get_component_list_type(cache, entry_point) ==
    IF entry_point \in DOMAIN cache
    THEN [value |-> cache[entry_point], cache |-> cache]
    ELSE [value |-> LoadListType(entry_point),
          cache |-> (entry_point :> LoadListType(entry_point)) @@ cache]

\* entry_point = ...; component_list_type = self.get_component_list_type(...)
ResolveListType ==
    /\ At("list_type")
    /\ LET ep == modules_by_component_type[registry][Top.component_type]
           got == get_component_list_type(component_type_cache, ep)
       IN /\ component_type_cache' = got.cache
          /\ Goto([Top EXCEPT !.pc = "extract", !.entry_point = ep,
                              !.component_list_type = got.value])
    /\ UNCHANGED << entry_points_cache, config, masked_warned, parser_data, registry,
                    output, invoked, warnings, history >>

\* if template_data or isinstance(component_data, Jinja2Loader)
NeedsFormat(template_data, component_data) ==
    DOMAIN template_data.m # {} \/ component_data.lazy

\* name and component_data from the component; deep_format of the data
ExtractAndFormat ==
    /\ At("extract")
    /\ LET f == Top
           c == f.component
           pd == ParamDict(f.template_data, f.job_data)
           fmt == DeepFormat(c.data, pd, allow_empty_variables[registry])
       IN IF c.isdict
          THEN IF NeedsFormat(f.template_data, c.data)
               THEN IF fmt.ok
                    THEN Goto([f EXCEPT !.pc = "entry_points", !.name = c.name,
                                        !.component_data = fmt.data])
                    ELSE Raise(FormatError(c.data, pd))
               ELSE Goto([f EXCEPT !.pc = "entry_points", !.name = c.name,
                                   !.component_data = c.data])
          ELSE Goto([f EXCEPT !.pc = "entry_points", !.name = c.name,
                              !.component_data = NoData])
    /\ UNCHANGED << shared, config, masked_warned, parser_data, registry, output,
                    invoked, warnings, history >>

\* (variant: the cache is never hit)
CachedEpsMisses(cache, component_list_type) ==
    [none |-> TRUE, eps |-> EmptyMap]

\* eps = self._entry_points_cache.get(component_list_type)
CachedEps(cache, component_list_type) ==
    IF component_list_type \in DOMAIN cache
    THEN [none |-> FALSE, eps |-> cache[component_list_type]]
    ELSE [none |-> TRUE, eps |-> EmptyMap]

\* The table of the list type: from the cache, or built and then cached
LookupEntryPoints ==
    /\ At("entry_points")
    /\ LET f == Top
           clt == f.component_list_type
           cached == CachedEps(entry_points_cache, clt)
           built == BuildEps(f.entry_point, clt)
       IN IF ~cached.none
          THEN /\ Goto([f EXCEPT !.pc = "resolve", !.eps = cached.eps])
               /\ UNCHANGED << entry_points_cache, build_count, dup_seen >>
          ELSE IF built.dup
               THEN /\ Raise(DuplicateError(f.component_type, f.name))
                    /\ dup_seen' = [dup_seen EXCEPT ![clt] = TRUE]
                    /\ UNCHANGED << entry_points_cache, build_count >>
               ELSE /\ entry_points_cache' = (clt :> built.eps) @@ entry_points_cache
                    /\ build_count' = [build_count EXCEPT ![clt] = @ + 1]
                    /\ Goto([f EXCEPT !.pc = "resolve", !.eps = built.eps])
                    /\ UNCHANGED dup_seen
    /\ UNCHANGED << component_type_cache, config, masked_warned, parser_data,
                    registry, output, invoked, warnings, warn_count, snap >>

\* component = self.parser_data.get(component_type, {}).get(name)
LookupMacro(data, component_type, name) ==
    IF component_type \in DOMAIN data /\ name \in DOMAIN data[component_type]
    THEN data[component_type][name]
    ELSE Macro(FALSE, EmptyMap)

\* (variant: if component is not None)
IsMacroByPresence(data, component_type, name) ==
    component_type \in DOMAIN data /\ name \in DOMAIN data[component_type]

\* if component: (a dict that is not empty)
IsMacro(data, component_type, name) ==
    LookupMacro(data, component_type, name).nonempty

\* (variant: the set of warned names is not consulted)
ShouldWarnAlways(name, eps, warned) == name \in DOMAIN eps

\* if name in eps and name not in self.masked_warned
ShouldWarn(name, eps, warned) == name \in DOMAIN eps /\ name \notin warned

\* (variant: a name that is in neither place is taken for a macro)
ResolveUnknownAsMacro(data, component_type, name, eps) ==
    IF IsMacro(data, component_type, name) THEN "macro"
    ELSE IF name \in DOMAIN eps THEN "generator"
    ELSE "macro"

\* (variant: the generator of the name is looked for before the macro)
ResolveGeneratorFirst(data, component_type, name, eps) ==
    IF name \in DOMAIN eps THEN "generator"
    ELSE IF IsMacro(data, component_type, name) THEN "macro"
    ELSE "unknown"

\* (variant: a name whose macro is being expanded further down the call
\* stack is refused)
ResolveRefusesCycle(data, component_type, name, eps) ==
    IF \E i \in 1..(Len(stack) - 1) : stack[i].pc = "expand" /\ stack[i].name = name
    THEN "unknown"
    ELSE IF IsMacro(data, component_type, name) THEN "macro"
    ELSE IF name \in DOMAIN eps THEN "generator"
    ELSE "unknown"

\* if component: ... elif name in eps: ... else: raise
Resolve(data, component_type, name, eps) ==
    IF IsMacro(data, component_type, name) THEN "macro"
    ELSE IF name \in DOMAIN eps THEN "generator"
    ELSE "unknown"

\* (variant: the name is not recorded)
MarkWarnedForgets(warned, name) == warned

\* self.masked_warned[name] = True
MarkWarned(warned, name) == warned \cup {name}

\* macro first, then the generator of that name, else unknown
ResolveComponent ==
    /\ At("resolve")
    /\ LET f == Top
           data == parser_data[registry].data
           component == LookupMacro(data, f.component_type, f.name)
           warn == ShouldWarn(f.name, f.eps, masked_warned[registry])
           how == Resolve(data, f.component_type, f.name, f.eps)
       IN IF how = "macro"
          THEN /\ IF warn
                  THEN /\ masked_warned' = [masked_warned EXCEPT
                                              ![registry] = MarkWarned(@, f.name)]
                       /\ warnings' = Append(warnings, << f.name, f.component_type >>)
                       /\ warn_count' = [warn_count EXCEPT ![registry][f.name] = @ + 1]
                  ELSE UNCHANGED << masked_warned, warnings, warn_count >>
               /\ IF f.component_list_type \in DOMAIN component.lists
                  THEN Goto([f EXCEPT !.pc = "expand", !.idx = 1,
                                      !.body = component.lists[f.component_list_type]])
                  ELSE Raise(Error("KeyError", "", << f.component_list_type >>))
          ELSE /\ IF how = "generator"
                  THEN Goto([f EXCEPT !.pc = "invoke"])
                  ELSE Raise(UnknownNameError(f.name, f.component_type))
               /\ UNCHANGED << masked_warned, warnings, warn_count >>
    /\ UNCHANGED << shared, config, parser_data, registry, output, invoked,
                    build_count, dup_seen, snap >>

\* (variant: the macro's own template_data is handed down)
ChildKeepsTemplateData(f) ==
    Frame(f.component_type, f.xml_parent, f.body[f.idx], f.template_data, f.job_data)

\* (variant: the macro's own template data stays in the context of its body)
ChildCumulative(f) ==
    Frame(f.component_type, f.xml_parent, f.body[f.idx],
          Data(FALSE, f.component_data.m @@ f.template_data.m), f.job_data)

\* (variant: the body is walked from its end)
ChildFromEnd(f) ==
    Frame(f.component_type, f.xml_parent, f.body[Len(f.body) + 1 - f.idx],
          f.component_data, f.job_data)

\* for b in component[component_list_type]: self.dispatch(component_type,
\* xml_parent, b, component_data, job_data=job_data)
Child(f) ==
    Frame(f.component_type, f.xml_parent, f.body[f.idx], f.component_data, f.job_data)

ExpandNext ==
    /\ At("expand")
    /\ Top.idx <= Len(Top.body)
    /\ IF Len(stack) >= MaxDepth
       THEN Raise(Error("RecursionError", "maximum recursion depth exceeded", << >>))
       ELSE /\ stack' = Append(SetTop([Top EXCEPT !.idx = @ + 1,
                                                  !.children = Append(@, Child(Top))]),
                               Child(Top))
            /\ UNCHANGED << exc, result >>
    /\ UNCHANGED << shared, config, masked_warned, parser_data, registry, output,
                    invoked, warnings, history >>

\* (variant: the dispatcher closes a macro with an element of its own)
ExpandDoneWritesOutput ==
    /\ At("expand")
    /\ Top.idx > Len(Top.body)
    /\ Return
    /\ output' = [output EXCEPT ![Top.xml_parent] =
                     Append(@, [gen |-> [module |-> "registry", attr |-> Top.name],
                                data |-> Top.component_data])]
    /\ UNCHANGED << shared, config, masked_warned, parser_data, registry,
                    invoked, warnings, history >>

\* the loop is exhausted: dispatch returns
ExpandDone ==
    /\ At("expand")
    /\ Top.idx > Len(Top.body)
    /\ Return
    /\ UNCHANGED << shared, config, masked_warned, parser_data, registry, output,
                    invoked, warnings, history >>

\* func = eps[name]; kwargs = self._filter_kwargs(func, job_data=job_data)
\* func(self, xml_parent, component_data, **kwargs)
InvokeGenerator ==
    /\ At("invoke")
    /\ LET f == Top
           func == f.eps[f.name]
           kwargs == FilterKwargs(func, "job_data" :> f.job_data)
           call == [func |-> func, registry |-> registry, xml_parent |-> f.xml_parent,
                    data |-> f.component_data, kwargs |-> kwargs, name |-> f.name,
                    component_type |-> f.component_type, depth |-> Len(stack),
                    raised |-> GeneratorRaises(func)]
       IN IF CallAccepted(func, kwargs)
          THEN /\ invoked' = Append(invoked, call)
               /\ IF GeneratorRaises(func)
                  THEN /\ Raise(GeneratorError(f.name))
                       /\ UNCHANGED output
                  ELSE /\ output' = [output EXCEPT ![f.xml_parent] =
                                        Append(@, [gen |-> func, data |-> f.component_data])]
                       /\ Return
          ELSE /\ Raise(Error("TypeError", "unexpected keyword argument", << >>))
               /\ UNCHANGED << output, invoked >>
    /\ UNCHANGED << shared, config, masked_warned, parser_data, registry, warnings,
                    history >>

\* (variant: the expansion loop catches the failure of a sub-component)
UnwindResumes ==
    /\ stack # << >>
    /\ exc.kind # "none"
    /\ stack' = Pop
    /\ exc' = NoExc
    /\ IF Len(stack) = 1
       THEN result' = exc
       ELSE UNCHANGED result
    /\ UNCHANGED << shared, config, masked_warned, parser_data, registry, output,
                    invoked, warnings, history >>

\* an exception leaves one dispatch frame; out of the last, it reaches the caller
Unwind ==
    /\ stack # << >>
    /\ exc.kind # "none"
    /\ stack' = Pop
    /\ IF Len(stack) = 1
       THEN result' = exc /\ exc' = NoExc
       ELSE UNCHANGED << exc, result >>
    /\ UNCHANGED << shared, config, masked_warned, parser_data, registry, output,
                    invoked, warnings, history >>

dispatch ==
    \/ CheckComponentType
    \/ ResolveListType
    \/ ExtractAndFormat
    \/ LookupEntryPoints
    \/ ResolveComponent
    \/ ExpandNext
    \/ ExpandDone
    \/ InvokeGenerator
    \/ Unwind

Next ==
    \/ \E r \in Registries : set_parser_data(r, ParserData)
    \/ /\ Idle
       /\ \E r \in Registries, ct \in ComponentTypes, n \in TopNodes,
             td \in TopTemplateData, jd \in TopJobData :
             \E c \in TopRefs(ct) : Call(r, ct, n, c, td, jd)
    \/ dispatch
    \/ Finish

Spec == Init /\ [][Next]_vars

\* ---------------------------------------------------------------------
\* Properties
\* ---------------------------------------------------------------------
Frames == { stack[i] : i \in 1..Len(stack) }
MacroData == parser_data[registry].data

\* a macro definition exists under the type and the table has the name too
Shadows(f) ==
    /\ IsMacro(MacroData, f.component_type, f.name)
    /\ f.name \in DOMAIN f.eps

\* C1: a dispatch whose name is a (non-empty) macro of its component type and
\* also a name of the entry-point table expands the macro body and never
\* calls the generator of that name, on the first dispatch and on later ones.
MacroPrecedence ==
    /\ \A f \in Frames :
          (registry # "none" /\ f.pc \in {"expand", "invoke"} /\ Shadows(f)) =>
             /\ f.pc = "expand"
             /\ f.body = LookupMacro(MacroData, f.component_type, f.name)
                            .lists[f.component_list_type]
    /\ \A i \in 1..Len(invoked) :
          ~IsMacro(parser_data[invoked[i].registry].data,
                   invoked[i].component_type, invoked[i].name)

\* a later dispatch of "build" (already warned about) expanded the macro
\* and its body's generator ran, the build generator did not
MacroPrecedenceWitness ==
    /\ stack = << >> /\ result = Ok
    /\ snap.call.component = Bare("build")
    /\ snap.call.component_type = "builder"
    /\ "build" \in snap.masked_warned[registry]
    /\ Len(invoked) = 1
    /\ invoked[1].name = "shell"
    /\ invoked[1].func.attr = "shell"

\* C2: on one registry the shadowing warning of a name is logged exactly once
\* in total: by the first dispatch that resolves the name as a macro shadowing
\* a generator, and by none of the later ones.
WarnedExactlyOnce ==
    [][ /\ (At("resolve") /\ Shadows(Top)) =>
              /\ warn_count'[registry][Top.name] = 1
              /\ (Len(warnings') = Len(warnings) + 1)
                    <=> (warn_count[registry][Top.name] = 0)
        /\ \A r \in Registries, n \in Names :
              (warn_count'[r][n] # warn_count[r][n]) =>
                 /\ At("resolve") /\ Shadows(Top)
                 /\ r = registry /\ n = Top.name
                 /\ warn_count[r][n] = 0 ]_vars

\* a second dispatch of "build" on a registry that had warned: no new warning
WarnedExactlyOnceWitness ==
    /\ stack = << >> /\ result = Ok
    /\ snap.call.component = Bare("build")
    /\ snap.call.component_type = "builder"
    /\ "build" \in snap.masked_warned[registry]
    /\ warnings = << >>
    /\ warn_count[registry]["build"] = 1

RECURSIVE TotalWarnings(_, _)
TotalWarnings(rs, n) ==
    IF rs = {} THEN 0
    ELSE LET r == CHOOSE x \in rs : TRUE
         IN warn_count[r][n] + TotalWarnings(rs \ {r}, n)

Args(f) ==
    [component_type |-> f.component_type, xml_parent |-> f.xml_parent,
     component |-> f.component, template_data |-> f.template_data,
     job_data |-> f.job_data]

\* C4: a macro dispatches the sub-components of its body one after the other
\* in the declared order, each once, with its own component_type, xml_parent
\* and job_data and with its (interpolated) component_data as template_data;
\* the next one is dispatched only when the previous dispatch has returned,
\* and the macro returns when the whole body has been dispatched.
MacroExpansionInOrder ==
    /\ [](\A i \in 1..Len(stack) :
            LET f == stack[i] IN
            /\ (f.pc = "expand") =>
                  /\ f.idx \in 1..(Len(f.body) + 1)
                  /\ Len(f.children) = f.idx - 1
                  /\ \A k \in 1..Len(f.children) :
                        Args(f.children[k]) =
                           [component_type |-> f.component_type,
                            xml_parent |-> f.xml_parent,
                            component |-> f.body[k],
                            template_data |-> f.component_data,
                            job_data |-> f.job_data]
            /\ (i < Len(stack)) =>
                  /\ f.pc = "expand"
                  /\ f.idx >= 2
                  /\ Args(stack[i + 1]) = Args(f.children[f.idx - 1]))
    /\ [][(At("expand") /\ Len(stack') < Len(stack)) =>
             (Len(Top.children) = Len(Top.body) /\ exc'.kind = "none")]_vars

\* the macro "two", called with {"x": "1"}, has dispatched its two
\* sub-builders in order, each with {"x": "1"} as template_data
MacroExpansionInOrderWitness ==
    /\ Running /\ Len(stack) = 1
    /\ Top.name = "two" /\ Top.pc = "expand" /\ Top.idx = 3
    /\ Top.component_data = X1
    /\ Top.children[1].component.name = "shell"
    /\ Top.children[2].component.name = "copy"
    /\ Top.children[1].template_data = X1
    /\ Top.children[2].template_data = X1
    /\ Len(invoked) = 2
    /\ invoked[1].name = "shell" /\ invoked[2].name = "copy"
    /\ invoked[1].data.m["cmd"] = "1"

\* C5: dispatch with a component type no module declared fails with the
\* error naming the type before anything else happens: no generator call, no
\* output, both caches and the warned names as they were.
UnknownTypeFailsFirst ==
    (registry # "none"
       /\ snap.call.component_type \notin DOMAIN modules_by_component_type[registry]) =>
        /\ entry_points_cache = snap.entry_points_cache
        /\ component_type_cache = snap.component_type_cache
        /\ masked_warned = snap.masked_warned
        /\ invoked = << >>
        /\ \A n \in Nodes : output[n] = << >>
        /\ (stack # << >>) => (Len(stack) = 1 /\ Top.pc = "check_type")
        /\ (stack = << >>) =>
              /\ result.kind = "JenkinsJobsException"
              /\ result.text = "Unknown component type"
              /\ result.args = << snap.call.component_type >>

\* "frobnicator" was dispatched when the caches were already filled
UnknownTypeFailsFirstWitness ==
    /\ stack = << >>
    /\ result.text = "Unknown component type"
    /\ snap.call.component_type = "frobnicator"
    /\ "builders" \in DOMAIN entry_points_cache
    /\ masked_warned[registry] # {}

\* the table the cache holds for the list type of a frame
TableOf(f) == entry_points_cache[f.component_list_type]

\* C6: for a known type, a name that is neither a macro of the type nor a
\* name of the table of its list type fails with the JenkinsJobsException
\* naming the name and the type, and no generator is called; a dispatch
\* returns normally only after resolving its name to a macro or a generator.
UnknownNameFails ==
    /\ [](\A f \in Frames :
             /\ (f.pc = "expand") =>
                   IsMacro(MacroData, f.component_type, f.name)
             /\ (f.pc = "invoke") =>
                   /\ ~IsMacro(MacroData, f.component_type, f.name)
                   /\ f.name \in DOMAIN TableOf(f))
    /\ [][ /\ (At("resolve")
                 /\ ~IsMacro(MacroData, Top.component_type, Top.name)
                 /\ Top.name \notin DOMAIN TableOf(Top)) =>
                 /\ exc' = [kind |-> "JenkinsJobsException",
                            text |-> "Unknown entry point or macro",
                            args |-> << Top.name, Top.component_type >>]
                 /\ invoked' = invoked
                 /\ output' = output
           /\ (exc.kind = "none" /\ exc'.text = "Unknown entry point or macro") =>
                 /\ At("resolve")
                 /\ ~IsMacro(MacroData, Top.component_type, Top.name)
                 /\ Top.name \notin DOMAIN TableOf(Top)
           /\ (Running /\ Len(stack') < Len(stack)) =>
                 Top.pc \in {"expand", "invoke"} ]_vars

\* the top-level dispatch of "nope" failed and no generator had run
UnknownNameFailsWitness ==
    /\ stack = << >>
    /\ result = [kind |-> "JenkinsJobsException",
                 text |-> "Unknown entry point or macro",
                 args |-> << "nope", "builder" >>]
    /\ snap.call.component = Bare("nope")
    /\ invoked = << >>

HasDuplicateNames(module_eps) ==
    \E i, j \in 1..Len(module_eps) : i < j /\ module_eps[i].name = module_eps[j].name

OwnerOf(clt) == CHOOSE ep \in { ModuleEntryPoints[ct] : ct \in KnownTypes } :
                    LoadListType(ep) = clt

Duplicated(clt) ==
    clt \in ListTypes /\ HasDuplicateNames(ModuleEps(OwnerOf(clt), clt))

\* C7: when the discovered and the registered generators of a list type share
\* a name, every dispatch that gets to the table fails with the duplicate
\* error, the first and the later ones; the cache never holds a table for the
\* list type, no generator of it is called, and a cached table maps every
\* entry point of its two sources to its own generator.
DuplicateEntryPointsFail ==
    /\ [](/\ \A clt \in ListTypes : Duplicated(clt) =>
                (clt \notin DOMAIN entry_points_cache /\ build_count[clt] = 0)
          /\ \A f \in Frames : Duplicated(f.component_list_type) =>
                (f.pc \in {"extract", "entry_points"} /\ f.eps = EmptyMap)
          /\ \A i \in 1..Len(invoked) :
                ~Duplicated(LoadListType(ModuleEntryPoints[invoked[i].component_type]))
          /\ \A clt \in DOMAIN entry_points_cache :
                LET eps == ModuleEps(OwnerOf(clt), clt)
                IN /\ DOMAIN entry_points_cache[clt] = { eps[i].name : i \in 1..Len(eps) }
                   /\ \A i \in 1..Len(eps) :
                         entry_points_cache[clt][eps[i].name] = eps[i].gen)
    /\ [][(At("entry_points") /\ Duplicated(Top.component_list_type)) =>
             /\ exc'.kind = "JenkinsJobsException"
             /\ exc'.text = "Duplicate entry point found for component type"
             /\ exc'.args[1] = Top.component_type
             /\ entry_points_cache' = entry_points_cache
             /\ invoked' = invoked ]_vars

\* a dispatch of a trigger failed with the duplicate error after an earlier
\* dispatch had failed the same way; nothing is cached for "triggers"
DuplicateEntryPointsFailWitness ==
    /\ stack = << >>
    /\ result.text = "Duplicate entry point found for component type"
    /\ snap.call.component_type = "trigger"
    /\ snap.dup_seen["triggers"]
    /\ "triggers" \notin DOMAIN entry_points_cache
    /\ "builders" \in DOMAIN entry_points_cache
    /\ invoked = << >>

\* C8: the table of a list type is built at most once per process: once it
\* is cached, no dispatch of any registry, nested or not, builds it again,
\* and the cached table stays as it is.
TableBuiltOnce ==
    /\ [](\A clt \in ListTypes :
             /\ build_count[clt] <= 1
             /\ (clt \in DOMAIN entry_points_cache) <=> (build_count[clt] = 1))
    /\ [][\A clt \in DOMAIN entry_points_cache :
             /\ clt \in DOMAIN entry_points_cache'
             /\ entry_points_cache'[clt] = entry_points_cache[clt]
             /\ build_count'[clt] = build_count[clt]]_vars

\* r1 has used the builders table (it warned about builder "build": the
\* publishers table does not exist); now a nested dispatch of r2 has taken
\* the table from the cache, which was filled before this call
TableBuiltOnceWitness ==
    /\ Running /\ registry = "r2"
    /\ Len(stack) >= 2
    /\ Top.pc = "resolve"
    /\ Top.component_list_type = "builders"
    /\ "builders" \in DOMAIN snap.entry_points_cache
    /\ Top.eps = snap.entry_points_cache["builders"]
    /\ build_count["builders"] = 1
    /\ warn_count["r1"]["build"] = 1
    /\ "publishers" \notin DOMAIN entry_points_cache

\* the generator calls of this dispatch that were given node n and returned
CallsOn(n) == LET On(k) == k.xml_parent = n /\ ~k.raised IN SelectSeq(invoked, On)

\* C9: the output changes only when a generator is called: every other step
\* of the dispatcher leaves it as it is, so what each node holds is what the
\* generators called on it appended, and nothing when none was called.
OutputOnlyFromGenerators ==
    /\ [](registry # "none" =>
            \A n \in Nodes :
               /\ Len(output[n]) = Len(CallsOn(n))
               /\ \A i \in 1..Len(output[n]) :
                     output[n][i] = [gen |-> CallsOn(n)[i].func,
                                     data |-> CallsOn(n)[i].data])
    /\ [][(stack # << >> /\ output' # output) =>
             /\ At("invoke")
             /\ Len(invoked') = Len(invoked) + 1
             /\ \A n \in Nodes \ {Top.xml_parent} : output'[n] = output[n]]_vars

\* the macro "none" (empty body) was expanded and the dispatch returned,
\* having built and cached the builders table on its way
OutputOnlyFromGeneratorsWitness ==
    /\ stack = << >> /\ result = Ok
    /\ snap.call.component = Bare("none")
    /\ "builders" \notin DOMAIN snap.entry_points_cache
    /\ "builders" \in DOMAIN entry_points_cache
    /\ invoked = << >>
    /\ \A n \in Nodes : output[n] = << >>

\* C10: a leaf dispatch calls the resolved generator once with the registry,
\* the xml_parent and the component_data, and with job_data exactly when the
\* generator declares a parameter of that name; the call is never refused
\* for the keyword arguments.
GeneratorCallingConvention ==
    /\ [](/\ exc.kind # "TypeError" /\ result.kind # "TypeError"
          /\ \A i \in 1..Len(invoked) :
                LET k == invoked[i] IN
                /\ k.registry = registry
                /\ k.xml_parent = snap.call.xml_parent
                /\ DOMAIN k.kwargs \subseteq {"job_data"}
                /\ ("job_data" \in DOMAIN k.kwargs) <=> ("job_data" \in ArgSpec(k.func))
                /\ ("job_data" \in DOMAIN k.kwargs) =>
                      k.kwargs["job_data"] = snap.call.job_data)
    /\ [][ /\ At("invoke") =>
                /\ Len(invoked') = Len(invoked) + 1
                /\ SubSeq(invoked', 1, Len(invoked)) = invoked
                /\ invoked'[Len(invoked')].func = TableOf(Top)[Top.name]
                /\ invoked'[Len(invoked')].data = Top.component_data
                /\ invoked'[Len(invoked')].xml_parent = Top.xml_parent
                /\ exc'.kind # "TypeError"
                /\ exc'.kind = "none" => stack' = Pop
           /\ (stack # << >> /\ invoked' # invoked) => At("invoke") ]_vars

\* one dispatch called "shell" without job_data and "copy" with it
GeneratorCallingConventionWitness ==
    /\ stack = << >> /\ result = Ok
    /\ Len(invoked) = 2
    /\ invoked[1].func.attr = "shell"
    /\ DOMAIN invoked[1].kwargs = {}
    /\ invoked[2].func.attr = "copy"
    /\ DOMAIN invoked[2].kwargs = {"job_data"}
    /\ invoked[2].kwargs["job_data"] = Job("x" :> "J")

\* ---------------------------------------------------------------------
\* The plugin metadata store of a registry built from a plugins list
\* ---------------------------------------------------------------------
NewPlugins ==
    /\ \E l \in PluginsLists :
          /\ plugins_list = l
          /\ plugins_dict = PluginsDict(l)
    /\ plugin_name = None
    /\ plugin_info = EmptyMap
    /\ InitHandlers
    /\ InitModules
    /\ InitDispatch

get_plugin_info(name) ==
    /\ plugin_name' = name
    /\ plugin_info' = PluginInfo(plugins_dict, name)
    /\ UNCHANGED << plugins_list, plugins_dict, handling, discovery,
                    modules_by_component_type, dispatching >>

NextPlugins == \E name \in PluginNames : get_plugin_info(name)

SpecPlugins == NewPlugins /\ [][NextPlugins]_vars

\* The places in the plugins list of the descriptors that declare a name
Declaring(name) ==
    { i \in 1..Len(plugins_list.list) :
        /\ name # None
        /\ name \in { plugins_list.list[i].longName,
                      plugins_list.list[i].shortName } }
Last(places) == CHOOSE i \in places : \A j \in places : j <= i

\* C11: a lookup of a plugin name returns the record of the last descriptor
\* of the plugins list that declares the name as its longName or shortName
\* (not None), and the empty mapping when no descriptor declares it; a
\* descriptor whose two names no later descriptor reuses is found under both
\* names; no lookup changes the store.
PluginLookup ==
    /\ [](plugin_name # None =>
            IF Declaring(plugin_name) = {}
            THEN DOMAIN plugin_info = {}
            ELSE LET i == Last(Declaring(plugin_name))
                 IN  /\ plugin_info.id = i
                     /\ plugin_info.longName = plugins_list.list[i].longName
                     /\ plugin_info.shortName = plugins_list.list[i].shortName)
    /\ [](\A i \in 1..Len(plugins_list.list) :
            LET d == plugins_list.list[i]
            IN  (/\ d.longName # None
                 /\ d.shortName # None
                 /\ Last(Declaring(d.longName)) = i
                 /\ Last(Declaring(d.shortName)) = i)
                => /\ PluginInfo(plugins_dict, d.longName).id = i
                   /\ PluginInfo(plugins_dict, d.longName)
                        = PluginInfo(plugins_dict, d.shortName))
    /\ [][plugins_dict' = plugins_dict]_vars

PluginLookupWitness ==
    /\ Len(plugins_list.list) = 2
    /\ plugins_list.list[1].longName = "X"
    /\ plugins_list.list[1].shortName = "x"
    /\ plugins_list.list[2].shortName = "X"
    /\ plugin_name = "X"
    /\ plugin_info.id = 2
    /\ PluginInfo(plugins_dict, "x").id = 1

\* ---------------------------------------------------------------------
\* The handler registry
\* ---------------------------------------------------------------------
registerHandler(category, name, method) ==
    /\ Len(registered) < MaxRegistrations
    /\ LET cat_dict == GetCategory(handlers, category)
           stored == IF DOMAIN cat_dict = {}
                     THEN (category :> cat_dict) @@ handlers
                     ELSE handlers
       IN  handlers' = [stored EXCEPT ![category] = SetItem(cat_dict, name, method)]
    /\ registered' = Append(registered, [category |-> category, name |-> name,
                                         method |-> method])
    /\ UNCHANGED << handler, plugins, discovery, modules_by_component_type,
                    dispatching >>

getHandler(category, name) ==
    /\ handler' = [category |-> category, name |-> name, after |-> Len(registered)]
                  @@ GetItem(handlers, category, name)
    /\ UNCHANGED << handlers, registered, plugins, discovery,
                    modules_by_component_type, dispatching >>

NextHandlers ==
    \/ \E category \in Categories, name \in HandlerNames, method \in Methods :
          registerHandler(category, name, method)
    \/ \E category \in Categories, name \in HandlerNames : getHandler(category, name)

SpecHandlers == Init /\ [][NextHandlers]_vars

\* The first n registerHandler calls that were made for a pair
RegisteredFor(category, name, n) ==
    { i \in 1..n : registered[i].category = category /\ registered[i].name = name }

\* C12: getHandler returns the method of the most recent registerHandler call
\* for the pair (category, name), and raises a lookup error exactly when no
\* call was made for the pair; a registerHandler call changes what getHandler
\* returns for no other pair.
HandlerLookup ==
    /\ [](handler.category # "" =>
            LET calls == RegisteredFor(handler.category, handler.name, handler.after)
            IN  IF calls = {}
                THEN handler.raised = "KeyError"
                ELSE /\ handler.raised = ""
                     /\ handler.method = registered[Last(calls)].method)
    /\ [][\A category \in Categories, name \in HandlerNames :
            GetItem(handlers', category, name) # GetItem(handlers, category, name)
            => /\ Len(registered') = Len(registered) + 1
               /\ registered'[Len(registered')].category = category
               /\ registered'[Len(registered')].name = name]_vars

HandlerLookupWitness ==
    /\ Len(registered) = 3
    /\ registered[1] = [category |-> "jobs", name |-> "a", method |-> "m1"]
    /\ registered[2] = [category |-> "jobs", name |-> "b", method |-> "m1"]
    /\ registered[3] = [category |-> "jobs", name |-> "a", method |-> "m2"]
    /\ handler.category = "jobs" /\ handler.name = "a" /\ handler.after = 3
    /\ handler.method = "m2"
    /\ GetItem(handlers, "jobs", "b").method = "m1"
    /\ GetItem(handlers, "views", "a").raised = "KeyError"

\* ---------------------------------------------------------------------
\* Module discovery in __init__
\* ---------------------------------------------------------------------
NewModules ==
    /\ modules = << >>
    /\ pending \in DiscoveryOrders
    /\ loaded = << >>
    /\ modules_by_component_type =
          [r \in Registries |-> IF r = Constructing THEN EmptyMap
                                ELSE ModuleEntryPoints]
    /\ InitPlugins
    /\ InitHandlers
    /\ InitDispatch

\* One turn of the loop over iter_entry_points
LoadEntryPoint ==
    /\ pending # << >>
    /\ LET entrypoint == Head(pending)
           mod == LoadModule(entrypoint)
       IN  /\ modules' = SortBySequence(Append(modules, mod))
           /\ modules_by_component_type' =
                 IF mod.component_type # None
                 THEN [modules_by_component_type EXCEPT ![Constructing] =
                          (mod.component_type :> entrypoint) @@ @]
                 ELSE modules_by_component_type
           /\ pending' = Tail(pending)
           /\ loaded' = Append(loaded, entrypoint)
    /\ UNCHANGED << plugins, handling, dispatching >>

NextModules == LoadEntryPoint

SpecModules == NewModules /\ [][NextModules]_vars

\* The place of an entry point in the order of discovery
Discovered(entrypoint) == CHOOSE i \in 1..Len(loaded) : loaded[i] = entrypoint

\* The component types of the modules loaded so far
LoadedTypes ==
    { LoadModule(loaded[i]).component_type : i \in 1..Len(loaded) } \ { None }

\* C13: after every insertion the module list is sorted ascending by
\* sequence, holds exactly the modules instantiated so far, and keeps modules
\* of equal sequence in discovery order; the component type of every loaded
\* module that has one is mapped to the entry point of a module of that type,
\* and loading a module without component type adds no mapping.
ModuleCatalog ==
    /\ [](/\ Len(modules) = Len(loaded)
          /\ { modules[i] : i \in 1..Len(modules) }
               = { LoadModule(loaded[i]) : i \in 1..Len(loaded) }
          /\ \A i, j \in 1..Len(modules) :
                i < j => /\ modules[i].sequence <= modules[j].sequence
                         /\ modules[i].sequence = modules[j].sequence
                            => Discovered(modules[i].entry_point)
                                 < Discovered(modules[j].entry_point)
          /\ DOMAIN modules_by_component_type[Constructing] = LoadedTypes
          /\ \A ct \in LoadedTypes :
                LET last == Last({ i \in 1..Len(loaded) :
                                     LoadModule(loaded[i]).component_type = ct })
                IN  modules_by_component_type[Constructing][ct] = loaded[last])
    /\ [][(pending # << >> /\ LoadModule(Head(pending)).component_type = None)
          => modules_by_component_type' = modules_by_component_type]_vars

ModuleCatalogWitness ==
    /\ loaded = << "jenkins_jobs.modules.publishers", "ext_plugin.builders",
                   "jenkins_jobs.modules.general", "jenkins_jobs.modules.builders" >>
    /\ Len(modules) = 4
    /\ modules[1].entry_point = "jenkins_jobs.modules.general"
    /\ modules[2].entry_point = "ext_plugin.builders"
    /\ modules[3].entry_point = "jenkins_jobs.modules.builders"
    /\ modules[4].entry_point = "jenkins_jobs.modules.publishers"
    /\ modules_by_component_type[Constructing]["builder"]
         = "jenkins_jobs.modules.builders"

\* ---------------------------------------------------------------------
\* Interpolation, failures and the shape of the recursion
\* ---------------------------------------------------------------------
\* What a value becomes when job data is laid over the template arguments
Substituted(v, template_data, job_data) ==
    IF v \notin Templates THEN v
    ELSE IF ~job_data.none /\ VarOf(v) \in DOMAIN job_data.m
         THEN job_data.m[VarOf(v)]
         ELSE IF VarOf(v) \in DOMAIN template_data.m
              THEN template_data.m[VarOf(v)]
              ELSE ""

\* C14: a dict reference whose template arguments are non-empty, or whose
\* data is lazy, has its data interpolated against the template arguments
\* with the job data laid over them (job data wins); with empty template
\* arguments and data that is not lazy the data is passed on unchanged, even
\* with job data; a bare string gives the name and empty data, uninterpolated.
InterpolationContext ==
    [][At("extract") =>
        LET f == Top
            c == f.component
            g == stack'[Len(stack')]
        IN  /\ Len(stack') = Len(stack)
            /\ exc'.kind = "none" => g.pc = "entry_points" /\ g.name = c.name
            /\ ~c.isdict => exc'.kind = "none" /\ g.component_data = NoData
            /\ (c.isdict /\ DOMAIN f.template_data.m = {} /\ ~c.data.lazy)
               => exc'.kind = "none" /\ g.component_data = c.data
            /\ (c.isdict /\ (DOMAIN f.template_data.m # {} \/ c.data.lazy))
               => IF exc'.kind = "none"
                  THEN /\ DOMAIN g.component_data.m = DOMAIN c.data.m
                       /\ \A k \in DOMAIN c.data.m :
                             g.component_data.m[k]
                               = Substituted(c.data.m[k], f.template_data, f.job_data)
                  ELSE /\ exc'.kind = "FormatError"
                       /\ g = f
                       /\ \E k \in DOMAIN c.data.m :
                             /\ c.data.m[k] \in Templates
                             /\ VarOf(c.data.m[k]) \notin DOMAIN f.template_data.m
                             /\ f.job_data.none
                                \/ VarOf(c.data.m[k]) \notin DOMAIN f.job_data.m]_vars

InterpolationContextWitness ==
    /\ Running
    /\ Top.pc = "entry_points"
    /\ Top.component = Map("copy", CmdX)
    /\ Top.template_data = Data(FALSE, "x" :> "T")
    /\ Top.job_data = Job("x" :> "J")
    /\ Top.component_data.m["cmd"] = "J"

\* C15: a failure at any level of a macro expansion reaches the top-level
\* caller unchanged: while it propagates no frame resumes, no sub-component is
\* dispatched and no generator is called; a component whose interpolation
\* fails has run neither its macro nor its generator; what the generators
\* called before the failure appended stays in the output.
FailFast ==
    /\ [][exc.kind # "none" =>
            /\ stack' = Pop
            /\ invoked' = invoked
            /\ output' = output
            /\ IF Len(stack) = 1
               THEN result' = exc /\ exc'.kind = "none"
               ELSE exc' = exc /\ result' = result]_vars
    /\ [][(exc.kind = "none" /\ exc'.kind = "FormatError") =>
            /\ At("extract")
            /\ Top.children = << >>
            /\ stack' = stack
            /\ invoked' = invoked
            /\ output' = output]_vars
    /\ [](result.kind \notin {"none", "ok"} =>
            /\ stack = << >>
            /\ \A n \in Nodes : Len(output[n]) = Len(CallsOn(n)))

\* the macro "boom" failed in its second sub-component, after "shell" had
\* written to the node and before "copy" was dispatched
FailFastWitness ==
    /\ stack = << >>
    /\ result = GeneratorError("fail")
    /\ snap.call.component = Bare("boom")
    /\ Len(invoked) = 2
    /\ invoked[1].name = "shell" /\ ~invoked[1].raised
    /\ invoked[2].name = "fail" /\ invoked[2].raised
    /\ Len(output[snap.call.xml_parent]) = 1

\* A top-level dispatch has failed in the interpolation of its component
FailedInInterpolation ==
    /\ Len(stack) = 1
    /\ exc.kind = "FormatError"
    /\ Top.pc = "extract"

\* C16 as stated: the list type is resolved and the table built only after
\* extraction and interpolation, so a dispatch that fails in interpolation
\* leaves the component-type cache and the entry-point cache as they were.
CachesUntouchedByFailedInterpolation ==
    FailedInInterpolation =>
        /\ component_type_cache = snap.component_type_cache
        /\ entry_points_cache = snap.entry_points_cache

\* C16: the list type is resolved, and cached on first use, before the
\* component is extracted and interpolated; the entry-point table is looked
\* up and built only after.  A dispatch that fails in interpolation has
\* resolved and cached its list type and has built and cached no table: the
\* entry-point cache is as it was.
StepOrder ==
    /\ [][component_type_cache' # component_type_cache => At("list_type")]_vars
    /\ [][entry_points_cache' # entry_points_cache => At("entry_points")]_vars
    /\ [](\A i \in 1..Len(stack) :
            /\ stack[i].pc = "extract" =>
                  /\ stack[i].entry_point \in DOMAIN component_type_cache
                  /\ stack[i].component_list_type
                       = component_type_cache[stack[i].entry_point]
            /\ stack[i].pc \in {"check_type", "list_type", "extract"} =>
                  /\ stack[i].name = ""
                  /\ stack[i].eps = EmptyMap)
    /\ [](FailedInInterpolation =>
            /\ entry_points_cache = snap.entry_points_cache
            /\ Top.entry_point \in DOMAIN component_type_cache)

\* the first dispatch of the process failed in interpolation and left the
\* list type of its module in the component-type cache
StepOrderWitness ==
    /\ FailedInInterpolation
    /\ snap.component_type_cache = EmptyMap
    /\ component_type_cache
         = ("jenkins_jobs.modules.builders" :> "builders")
    /\ entry_points_cache = EmptyMap

\* The top-level references whose macro reaches itself again
CyclicRefs == { Bare("loop"), Bare("ping") }
Cyclic == snap.call.component_type = "builder" /\ snap.call.component \in CyclicRefs

\* The frames that expand a macro and have dispatched its first sub-component
Expanded == { i \in 1..Len(stack) : stack[i].pc = "expand" /\ stack[i].idx >= 2 }

\* C17: the dispatch of a macro that refers to itself, directly or through
\* another macro, never returns and never fails with an error of the
\* dispatcher: it re-expands the macro level after level, calling the
\* generators listed before the self-reference once on every level, until the
\* call stack is exhausted.
NoCycleDetection ==
    /\ [](Cyclic =>
            /\ exc.kind \in {"none", "RecursionError"}
            /\ result.kind \in {"none", "RecursionError"}
            /\ \A i \in 1..Len(invoked) :
                  /\ invoked[i].name = "shell"
                  /\ invoked[i].depth > 1
                  /\ i > 1 => invoked[i].depth > invoked[i - 1].depth
            /\ Running =>
                  \A i \in 1..Len(stack) :
                     (stack[i].pc = "expand" /\ stack[i].name = snap.call.component.name)
                     => Len(invoked) >= Cardinality({ j \in 1..(i - 1) :
                                            stack[j].name = stack[i].name })
            /\ result.kind = "RecursionError" =>
                  Len(invoked) = IF snap.call.component = Bare("loop")
                                 THEN MaxDepth - 1
                                 ELSE MaxDepth \div 2)
    /\ [][(Cyclic /\ exc.kind = "none" /\ exc'.kind = "RecursionError") =>
            /\ Len(stack) = MaxDepth
            /\ At("expand")
            /\ \A i \in 1..Len(stack) : stack[i].pc = "expand"]_vars

\* "loop" was dispatched and ended with the call stack exhausted, "shell"
\* having been called on every level but the last
NoCycleDetectionWitness ==
    /\ stack = << >>
    /\ result.kind = "RecursionError"
    /\ snap.call.component = Bare("loop")
    /\ Len(invoked) = MaxDepth - 1
    /\ \A i \in 1..Len(invoked) : invoked[i].depth = i + 1

\* The name has a definition under the type in the macro definitions
Defined(component_type, name) ==
    /\ component_type \in DOMAIN MacroData
    /\ name \in DOMAIN MacroData[component_type]

\* C18 as stated: a name found in the macro definitions of its type is
\* treated as a macro whatever its definition is: no generator is called
\* under such a name and the unknown-name error is not raised for it.
MacroByPresence ==
    registry # "none" =>
        /\ \A i \in 1..Len(invoked) :
              ~Defined(invoked[i].component_type, invoked[i].name)
        /\ exc.text = "Unknown entry point or macro"
           => ~Defined(exc.args[2], exc.args[1])

\* C18: the macro lookup decides by the truth value of the definition found:
\* a name whose definition is a non-empty mapping is treated as a macro (its
\* generator is not called, the unknown-name error is not raised); a name
\* whose definition is an empty mapping is treated as a name without
\* definition: its generator is called when the table has the name, and the
\* unknown-name error is raised when it has not.
MacroByTruthValue ==
    /\ [](registry # "none" =>
            /\ \A i \in 1..Len(invoked) :
                  Defined(invoked[i].component_type, invoked[i].name)
                  => ~MacroData[invoked[i].component_type][invoked[i].name].nonempty
            /\ exc.text = "Unknown entry point or macro"
               => (Defined(exc.args[2], exc.args[1])
                   => ~MacroData[exc.args[2]][exc.args[1]].nonempty))
    /\ [][(At("resolve") /\ Defined(Top.component_type, Top.name)) =>
            LET f == Top
                g == stack'[Len(stack')]
            IN  IF MacroData[f.component_type][f.name].nonempty
                THEN /\ exc'.kind \in {"none", "KeyError"}
                     /\ exc'.kind = "none" => g.pc = "expand"
                ELSE IF f.name \in DOMAIN f.eps
                     THEN exc'.kind = "none" /\ g.pc = "invoke"
                     ELSE exc' = UnknownNameError(f.name, f.component_type)]_vars

\* "copy" has an empty definition among the builder macros and the table has
\* the name: the generator was called
MacroByTruthValueWitness ==
    /\ stack = << >>
    /\ result = Ok
    /\ Len(invoked) = 1
    /\ invoked[1].name = "copy"
    /\ Defined("builder", "copy")
    /\ ~MacroData["builder"]["copy"].nonempty

\* ---------------------------------------------------------------------
\* Progress: dispatch is a plain synchronous call, the interpreter keeps
\* executing it until it returns or raises
\* ---------------------------------------------------------------------
\* The callers use one registry and generate into one node
FairNext ==
    \/ set_parser_data("r1", ParserData)
    \/ /\ Idle
       /\ \E ct \in ComponentTypes, td \in TopTemplateData, jd \in TopJobData :
             \E c \in TopRefs(ct) : Call("r1", ct, "n1", c, td, jd)
    \/ dispatch
    \/ Finish

FairSpec == Init /\ [][FairNext]_vars /\ WF_vars(dispatch)

\* The leaves of the expansion tree of a name, depth first and left to right
RECURSIVE Leaves(_, _, _)
RECURSIVE LeavesOfBody(_, _, _)
Leaves(component_type, name, fuel) ==
    IF fuel > 0 /\ IsMacro(MacroData, component_type, name)
    THEN LeavesOfBody(component_type,
            MacroData[component_type][name].lists[
                LoadListType(ModuleEntryPoints[component_type])],
            fuel - 1)
    ELSE << name >>
LeavesOfBody(component_type, body, fuel) ==
    IF body = << >> THEN << >>
    ELSE Leaves(component_type, Head(body).name, fuel)
         \o LeavesOfBody(component_type, Tail(body), fuel)

\* C19: the dispatch of a reference whose macros do not reach themselves
\* ends, returning or raising, and never by exhausting the call stack; when
\* it returns, the generators called are the leaves of the expansion tree,
\* each once, depth first and left to right.
AcyclicTerminates ==
    /\ (stack # << >> /\ ~Cyclic) ~> (stack = << >> /\ result.kind # "none")
    /\ [](~Cyclic => exc.kind # "RecursionError" /\ result.kind # "RecursionError")
    /\ [](result = Ok =>
            /\ ~Cyclic
            /\ \A i \in 1..Len(invoked) : ~invoked[i].raised
            /\ [i \in 1..Len(invoked) |-> invoked[i].name]
                 = Leaves(snap.call.component_type, snap.call.component.name, MaxDepth))

\* "outer" was expanded through "inner" down to its two generators
AcyclicTerminatesWitness ==
    /\ stack = << >>
    /\ result = Ok
    /\ snap.call.component.name = "outer"
    /\ Len(invoked) = 2
    /\ invoked[1].name = "shell" /\ invoked[1].depth = 3
    /\ invoked[2].name = "copy" /\ invoked[2].depth = 3

\* C20: the context of a sub-component is its immediate invoker's
\* interpolated data with the job data laid over it, and nothing of the
\* invoker's own context: an argument of a more distant ancestor reaches a
\* sub-component only through the data of every reference in between, and
\* under a macro invoked with empty data the data of a sub-component that is
\* not lazy is passed on as written.
ContextNotCumulative ==
    /\ [](\A i \in 2..Len(stack) :
            LET f == stack[i]
                p == stack[i - 1]
            IN  /\ f.template_data = p.component_data
                /\ f.job_data = p.job_data
                /\ (f.pc \notin {"check_type", "list_type", "extract"}) =>
                      IF ~f.component.isdict
                      THEN f.component_data = NoData
                      ELSE IF DOMAIN p.component_data.m = {} /\ ~f.component.data.lazy
                           THEN f.component_data = f.component.data
                           ELSE \A k \in DOMAIN f.component.data.m :
                                   f.component_data.m[k]
                                     = Substituted(f.component.data.m[k],
                                                   p.component_data, p.job_data))
    /\ [][(Len(stack) >= 2 /\ exc.kind = "none" /\ exc'.kind = "FormatError") =>
            LET f == Top
                p == stack[Len(stack) - 1]
            IN  \E k \in DOMAIN f.component.data.m :
                   /\ f.component.data.m[k] \in Templates
                   /\ VarOf(f.component.data.m[k]) \notin DOMAIN p.component_data.m
                   /\ p.job_data.none
                      \/ VarOf(f.component.data.m[k]) \notin DOMAIN p.job_data.m]_vars

\* "outer" was given x and forwards it to "inner" as y: below "inner" the
\* first sub-component got y, the second finds no x
ContextNotCumulativeWitness ==
    /\ Len(stack) = 3
    /\ exc.kind = "FormatError"
    /\ exc.args = << "x" >>
    /\ stack[1].name = "outer"
    /\ stack[1].component_data = X1
    /\ stack[2].name = "inner"
    /\ stack[2].component_data.m = ("y" :> "1")
    /\ Len(invoked) = 1
    /\ invoked[1].data.m = ("cmd" :> "1")
====
